---------------------------- MODULE Spec2Model ----------------------------
(***************************************************************************)
(* State-machine model of music.py: the TonnetzGrid object, its background *)
(* pre-generation thread, the Tk idle callback that builds the grid, the   *)
(* four GUI event handlers and the chord-preview timer threads.            *)
(*                                                                         *)
(* Geometry is kept exact in integers: an x coordinate counts units of     *)
(* 0.005*sqrt(3) and a y coordinate counts units of 0.005, so that         *)
(* hex_size 0.5 is 100, h_spacing 0.5*sqrt(3)*0.93 is 93 and v_spacing     *)
(* 0.5*1.7 is 170.                                                         *)
(***************************************************************************)
EXTENDS Integers, Sequences, FiniteSets, Bags, TLC

(* ----------------------------- bounds --------------------------------- *)
Rows == 4                \* TonnetzGrid(rows=...)
Cols == 1                \* TonnetzGrid(cols=...)
NumChannels == 2         \* size of the mixer's channel pool
MaxTimers == 4           \* preview timer threads alive at one time
MaxRows == 7             \* largest rows argument of the lattice runs
MaxCols == 12            \* largest cols argument of the lattice runs

\* make_sound may raise for these notes only
FailableNotes == {"E"}
\* pointer coordinates carried by mouse events (xdata, ydata)
PointXs == {0}
PointYs == {0 - 150, 0, 340, 510}
Points == PointXs \X PointYs
\* event.key values delivered to on_key
Keys == {" ", "x"}
\* the inputs of the runs with chord requests
ChordKeys == {" ", "C"}
ChordPointYs == {340}
\* a major and a minor chord key, for the handler applied to every state
HighlightKeys == {"C", "e"}
\* the pointer coordinates of the runs with chord requests and gestures
HighlightPointYs == {0, 340}
\* the pointer coordinates of the runs with three notes
PlayPointYs == {0, 170, 340}
\* event.key values of the runs with every chord key
AllKeys == {" ", "C", "D", "E", "F", "G", "A", "B",
            "c", "d", "e", "f", "g", "a", "b"}
\* the note names handed to pitch_class_to_index: the canonical names, the
\* flat spellings and names that are neither
NoteNames == {"C", "C#", "D", "D#", "E", "F", "F#", "G", "G#", "A", "A#", "B",
              "Db", "Eb", "Gb", "Ab", "Bb",
              "", "H", "c", "Cb", "E#", "do", "X"}
Qualities == {"major", "minor"}
\* the rows and cols arguments of the lattice runs
RowArgs == (0 - 1)..MaxRows
ColArgs == (0 - 1)..MaxCols

(* ------------------------- program constants -------------------------- *)
pitch_classes == <<"C", "C#", "D", "D#", "E", "F", "F#", "G", "G#", "A", "A#", "B">>
enharmonics == [n \in {"C#", "D#", "F#", "G#", "A#", "Db", "Eb", "Gb", "Ab", "Bb"} |->
    CASE n = "C#" -> "Db" [] n = "D#" -> "Eb" [] n = "F#" -> "Gb"
      [] n = "G#" -> "Ab" [] n = "A#" -> "Bb" [] n = "Db" -> "C#"
      [] n = "Eb" -> "D#" [] n = "Gb" -> "F#" [] n = "Ab" -> "G#"
      [] n = "Bb" -> "A#"]
\* the default arguments of TonnetzGrid, which main passes too
DefaultRows == 7
DefaultCols == 12
hex_size == 100
h_spacing == 93
v_spacing == 170

Notes == {pitch_classes[i] : i \in 1..12}
Channels == 1..NumChannels
None == "None"

Abs(x) == IF x < 0 THEN 0 - x ELSE x

VARIABLES
    AUDIO_AVAILABLE,             \* module global set by the import of pygame
    rows,                        \* self.rows
    cols,                        \* self.cols
    pregen_pc,                   \* position of the pre-generation thread
    pregen_i,                    \* index of the note pregenerate_sounds is at
    note_sounds,                 \* self.note_sounds (its keys)
    sounds_pregenerated_event,   \* threading.Event
    idle_callbacks,              \* callbacks queued with after_idle
    grid,                        \* self.grid, in insertion order
    hexagons,                    \* self.hexagons, in insertion order
    active_notes,
    chord_highlights,
    chord_triangles,             \* the triad markers drawn
    is_dragging,
    drag_toggle_state,
    already_toggled,
    playing_notes,               \* self.playing_notes: note -> channel
    channels,                    \* what each mixer channel is playing
    timers,                      \* preview timer threads not yet finished
    calls,                       \* calls made by the latest event handler run
    event_sets,                  \* number of calls of Event.set
    setups,                      \* number of runs of _post_generation_setup
    gesture,                     \* what the current drag gesture has done
    lookup                       \* a call of pitch_class_to_index in progress

vars == <<AUDIO_AVAILABLE, rows, cols, pregen_pc, pregen_i, note_sounds,
          sounds_pregenerated_event, idle_callbacks, grid, hexagons,
          active_notes, chord_highlights, chord_triangles, is_dragging,
          drag_toggle_state, already_toggled, playing_notes, channels, timers,
          calls, event_sets, setups, gesture, lookup>>

(* -------------------------- pure functions ---------------------------- *)
\* pitch_classes.index(alt) for the first alternative spelling that is a
\* canonical name, 0 when there is none
PcIndexOf(name) == CHOOSE i \in 0..11 : pitch_classes[i + 1] = name

pitch_class_to_index(note) ==
    LET alternatives == IF note \in DOMAIN enharmonics
                        THEN <<note, enharmonics[note]>>
                        ELSE <<note>>
        hits == {k \in 1..Len(alternatives) : alternatives[k] \in Notes}
    IN  IF hits = {} THEN 0
        ELSE PcIndexOf(alternatives[CHOOSE k \in hits : \A j \in hits : k <= j])

index_to_pitch_class(index) == pitch_classes[(index % 12) + 1]

\* the pitch of a cell with the even-column formula used in every column
PitchAt_no_offset(row, col, start_row, start_col) ==
    (7 * (col - start_col) + 4 * (row - start_row)) % 12

\* The pitch of one non-origin cell.  The odd-column branch is a float
\* computation: twice the value is kept so that the .5 stays an integer,
\* the float % 12 is % 24 on the doubled value, int() truncates.
PitchAt(row, col, start_row, start_col) ==
    LET row_offset == row - start_row
        col_offset == col - start_col
    IN  IF col % 2 = 0
        THEN (7 * col_offset + 4 * row_offset) % 12
        ELSE LET twice == 14 * col_offset + 8 * row_offset - 4
                 pitch_index == (twice % 24) \div 2
             IN  pitch_index % 12

RECURSIVE RowCells(_, _, _, _)
\* the cells the inner loop adds for one row, in loop order, from col on
RowCells(row, col, nrows, ncols) ==
    IF col >= ncols THEN <<>>
    ELSE LET start_row == nrows \div 2
             start_col == ncols \div 2
             rest == RowCells(row, col + 1, nrows, ncols)
         IN  IF row = start_row /\ col = start_col
             THEN rest
             ELSE <<[pos |-> <<row, col>>,
                     pitch |-> PitchAt(row, col, start_row, start_col)]>> \o rest

RECURSIVE GridCells(_, _, _)
\* the cells the two nested loops add, in loop order, from row on
GridCells(row, nrows, ncols) ==
    IF row >= nrows THEN <<>>
    ELSE RowCells(row, 0, nrows, ncols) \o GridCells(row + 1, nrows, ncols)

\* create_tonnetz_grid whose loops do not skip the origin: the formula's
\* value replaces the 0 stored for it
create_tonnetz_grid_unskipped(nrows, ncols) ==
    <<[pos |-> <<nrows \div 2, ncols \div 2>>,
       pitch |-> PitchAt(nrows \div 2, ncols \div 2, nrows \div 2, ncols \div 2)]>>
        \o GridCells(0, nrows, ncols)

\* self.grid after create_tonnetz_grid: the origin is inserted first
create_tonnetz_grid(nrows, ncols) ==
    <<[pos |-> <<nrows \div 2, ncols \div 2>>, pitch |-> 0]>>
        \o GridCells(0, nrows, ncols)

\* layout position of a cell
Position(row, col) ==
    <<col * h_spacing,
      row * v_spacing + (IF col % 2 = 1 THEN v_spacing \div 2 ELSE 0)>>

\* self.hexagons after create_hexagons: one entry per grid entry, same order
create_hexagons(g) ==
    [k \in 1..Len(g) |->
        [pos |-> g[k].pos,
         note |-> index_to_pitch_class(g[k].pitch),
         pitch_index |-> g[k].pitch,
         position |-> Position(g[k].pos[1], g[k].pos[2]),
         active |-> FALSE]]

point_in_hex(point, hex_center) ==
    LET dx == Abs(point[1] - hex_center[1])
        dy == Abs(point[2] - hex_center[2])
    IN  IF dy > hex_size THEN FALSE
        ELSE 2 * dx <= 2 * hex_size - dy

\* the first hexagon, in dict order, that contains the point; None if none
find_hex_at_point(hexs, x, y) ==
    LET hits == {k \in 1..Len(hexs) : point_in_hex(<<x, y>>, hexs[k].position)}
    IN  IF hits = {} THEN None
        ELSE hexs[CHOOSE k \in hits : \A j \in hits : k <= j].pos


(* ------------------------- the object's state ------------------------- *)
\* The fields the handlers read and write, as one record.
Self ==
    [AUDIO_AVAILABLE |-> AUDIO_AVAILABLE,
     note_sounds |-> note_sounds,
     hexagons |-> hexagons,
     active_notes |-> active_notes,
     chord_highlights |-> chord_highlights,
     chord_triangles |-> chord_triangles,
     is_dragging |-> is_dragging,
     drag_toggle_state |-> drag_toggle_state,
     already_toggled |-> already_toggled,
     playing_notes |-> playing_notes,
     channels |-> channels,
     timers |-> timers,
     calls |-> EmptyBag]

NoPos == <<0 - 1, 0 - 1>>
Call(f, note, ch, pos) == [f |-> f, note |-> note, ch |-> ch, pos |-> pos]
Log(s, c) == [s EXCEPT !.calls = @ (+) SetToBag({c})]
Count(b, c) == CopiesIn(c, b)

Idle == [kind |-> "idle", note |-> ""]
Loop(note) == [kind |-> "loop", note |-> note]
Preview(note) == [kind |-> "preview", note |-> note]

\* index in hexagons of the cell at pos
HexIdx(hexs, pos) == CHOOSE k \in 1..Len(hexs) : hexs[k].pos = pos
HexPositions(hexs) == {hexs[k].pos : k \in 1..Len(hexs)}
HexAt(hexs, pos) == hexs[HexIdx(hexs, pos)]

\* find_channel(force=True): a busy channel is handed out when none is idle
find_channel_forced(chs) ==
    LET free == {c \in DOMAIN chs : chs[c].kind = "idle"}
    IN  IF free = {} THEN 1 ELSE CHOOSE c \in free : \A d \in free : c <= d

\* pygame.mixer.find_channel(): the first channel that is not busy, 0 for None
find_channel(chs) ==
    LET free == {c \in DOMAIN chs : chs[c].kind = "idle"}
    IN  IF free = {} THEN 0 ELSE CHOOSE c \in free : \A d \in free : c <= d

\* start_continuous_note without the test "note not in self.playing_notes"
start_continuous_note_unguarded(s, note, exc) ==
    LET s0 == Log(s, Call("start_continuous_note", note, 0, NoPos))
    IN  IF ~s0.AUDIO_AVAILABLE \/ note \notin s0.note_sounds THEN s0
        ELSE LET s1 == Log(s0, Call("find_channel", "", 0, NoPos))
                 channel == find_channel(s1.channels)
             IN  IF exc \/ channel = 0 THEN s1
                 ELSE [Log(s1, Call("play", note, channel, NoPos)) EXCEPT
                          !.channels = [@ EXCEPT ![channel] = Loop(note)],
                          !.playing_notes =
                              [n \in (DOMAIN @) \cup {note} |->
                                  IF n = note THEN channel ELSE @[n]]]

\* exc: the backend call made inside the try block raises
start_continuous_note(s, note, exc) ==
    LET s0 == Log(s, Call("start_continuous_note", note, 0, NoPos))
    IN  IF ~s0.AUDIO_AVAILABLE \/ note \notin s0.note_sounds THEN s0
        ELSE IF note \in DOMAIN s0.playing_notes THEN s0
        ELSE LET s1 == Log(s0, Call("find_channel", "", 0, NoPos))
                 channel == find_channel(s1.channels)
             IN  IF exc \/ channel = 0 THEN s1
                 ELSE [Log(s1, Call("play", note, channel, NoPos)) EXCEPT
                          !.channels = [@ EXCEPT ![channel] = Loop(note)],
                          !.playing_notes = (note :> channel) @@ @]

stop_continuous_note(s, note, exc) ==
    LET s0 == Log(s, Call("stop_continuous_note", note, 0, NoPos))
    IN  IF ~s0.AUDIO_AVAILABLE THEN s0
        ELSE IF note \notin DOMAIN s0.playing_notes THEN s0
        ELSE LET channel == s0.playing_notes[note]
                 s1 == Log(s0, Call("stop", note, channel, NoPos))
             IN  IF exc THEN s1
                 ELSE [s1 EXCEPT
                          !.channels = [@ EXCEPT ![channel] = Idle],
                          !.playing_notes =
                              [n \in (DOMAIN @) \ {note} |-> @[n]]]

\* toggle_note that leaves hex_data['active'] alone when turning a cell off
toggle_note_stale_flag(s, pos, play_sound, exc) ==
    LET k == HexIdx(s.hexagons, pos)
        note == s.hexagons[k].note
        s0 == Log(s, Call("toggle_note", note, 0, pos))
    IN  IF pos \in s0.active_notes
        THEN LET s1 == [s0 EXCEPT !.active_notes = @ \ {pos}]
             IN  IF play_sound THEN stop_continuous_note(s1, note, exc) ELSE s1
        ELSE LET s1 == [s0 EXCEPT !.active_notes = @ \cup {pos},
                                  !.hexagons[k].active = TRUE]
             IN  IF play_sound THEN start_continuous_note(s1, note, exc) ELSE s1

\* toggle_note that never asks for the loop when turning a cell on
toggle_note_silent(s, pos, play_sound, exc) ==
    LET k == HexIdx(s.hexagons, pos)
        note == s.hexagons[k].note
        s0 == Log(s, Call("toggle_note", note, 0, pos))
    IN  IF pos \in s0.active_notes
        THEN LET s1 == [s0 EXCEPT !.active_notes = @ \ {pos},
                                  !.hexagons[k].active = FALSE]
             IN  IF play_sound THEN stop_continuous_note(s1, note, exc) ELSE s1
        ELSE [s0 EXCEPT !.active_notes = @ \cup {pos},
                        !.hexagons[k].active = TRUE]

toggle_note(s, pos, play_sound, exc) ==
    LET k == HexIdx(s.hexagons, pos)
        note == s.hexagons[k].note
        s0 == Log(s, Call("toggle_note", note, 0, pos))
    IN  IF pos \in s0.active_notes
        THEN LET s1 == [s0 EXCEPT !.active_notes = @ \ {pos},
                                  !.hexagons[k].active = FALSE]
             IN  IF play_sound THEN stop_continuous_note(s1, note, exc) ELSE s1
        ELSE LET s1 == [s0 EXCEPT !.active_notes = @ \cup {pos},
                                  !.hexagons[k].active = TRUE]
             IN  IF play_sound THEN start_continuous_note(s1, note, exc) ELSE s1

clear_chord_highlights(s) ==
    [s EXCEPT !.chord_highlights = {}, !.chord_triangles = <<>>]

\* clear_all with the try block around the whole loop: the first stop()
\* that raises ends the loop
clear_all_aborting(s, excs) ==
    LET s0 == clear_chord_highlights(s)
    IN  IF ~s0.AUDIO_AVAILABLE THEN s0
        ELSE LET notes_to_stop == DOMAIN s0.playing_notes
                 stopped == IF excs = {} THEN notes_to_stop ELSE {}
                 stops == [c \in {Call("stop", n, s0.playing_notes[n], NoPos) :
                                      n \in notes_to_stop} |-> 1]
             IN  [s0 EXCEPT
                     !.calls = @ (+) stops,
                     !.channels = [c \in DOMAIN @ |->
                         IF \E n \in stopped : s0.playing_notes[n] = c
                         THEN Idle ELSE @[c]],
                     !.playing_notes = [n \in (DOMAIN @) \ stopped |-> @[n]],
                     !.hexagons = [k \in DOMAIN @ |->
                         IF @[k].pos \in s0.active_notes
                         THEN [@[k] EXCEPT !.active = FALSE] ELSE @[k]],
                     !.active_notes = {}]

\* clear_all that empties active_notes and leaves hex_data['active'] alone
clear_all_stale_flags(s, excs) ==
    LET s0 == clear_chord_highlights(s)
    IN  IF ~s0.AUDIO_AVAILABLE THEN s0
        ELSE LET notes_to_stop == DOMAIN s0.playing_notes
                 stopped == notes_to_stop \ excs
                 stops == [c \in {Call("stop", n, s0.playing_notes[n], NoPos) :
                                      n \in notes_to_stop} |-> 1]
             IN  [s0 EXCEPT
                     !.calls = @ (+) stops,
                     !.channels = [c \in DOMAIN @ |->
                         IF \E n \in stopped : s0.playing_notes[n] = c
                         THEN Idle ELSE @[c]],
                     !.playing_notes = [n \in (DOMAIN @) \ stopped |-> @[n]],
                     !.active_notes = {}]

\* excs: the registered notes whose channel.stop() raises
clear_all(s, excs) ==
    LET s0 == clear_chord_highlights(s)
    IN  IF ~s0.AUDIO_AVAILABLE THEN s0
        ELSE LET notes_to_stop == DOMAIN s0.playing_notes
                 stopped == notes_to_stop \ excs
                 stops == [c \in {Call("stop", n, s0.playing_notes[n], NoPos) :
                                      n \in notes_to_stop} |-> 1]
             IN  [s0 EXCEPT
                     !.calls = @ (+) stops,
                     !.channels = [c \in DOMAIN @ |->
                         IF \E n \in stopped : s0.playing_notes[n] = c
                         THEN Idle ELSE @[c]],
                     !.playing_notes = [n \in (DOMAIN @) \ stopped |-> @[n]],
                     !.hexagons = [k \in DOMAIN @ |->
                         IF @[k].pos \in s0.active_notes
                         THEN [@[k] EXCEPT !.active = FALSE] ELSE @[k]],
                     !.active_notes = {}]

BoolStr(b) == IF b THEN "True" ELSE "False"

\* on_press that starts a drag gesture also when no hexagon is hit
on_press_drag_on_miss(s, event, exc) ==
    IF ~event.inaxes \/ event.button # 1 THEN s
    ELSE LET hex_pos == find_hex_at_point(s.hexagons, event.xdata, event.ydata)
         IN  IF hex_pos = None
             THEN [s EXCEPT !.is_dragging = TRUE, !.already_toggled = {}]
             ELSE LET s1 == [s EXCEPT
                                !.is_dragging = TRUE,
                                !.already_toggled = {hex_pos},
                                !.drag_toggle_state =
                                    BoolStr(hex_pos \notin s.active_notes)]
                  IN  toggle_note(s1, hex_pos, TRUE, exc)

\* event: [inaxes, button, xdata, ydata]
on_press(s, event, exc) ==
    IF ~event.inaxes \/ event.button # 1 THEN s
    ELSE LET hex_pos == find_hex_at_point(s.hexagons, event.xdata, event.ydata)
         IN  IF hex_pos = None THEN s
             ELSE LET s1 == [s EXCEPT
                                !.is_dragging = TRUE,
                                !.already_toggled = {hex_pos},
                                !.drag_toggle_state =
                                    BoolStr(hex_pos \notin s.active_notes)]
                  IN  toggle_note(s1, hex_pos, TRUE, exc)

\* on_motion that toggles whatever cell the pointer is over
on_motion_every_time(s, event, exc) ==
    IF ~s.is_dragging \/ ~event.inaxes THEN s
    ELSE LET hex_pos == find_hex_at_point(s.hexagons, event.xdata, event.ydata)
         IN  IF hex_pos = None THEN s
             ELSE toggle_note([s EXCEPT !.already_toggled = @ \cup {hex_pos}],
                              hex_pos, TRUE, exc)

\* on_motion that toggles every cell it has not visited, whatever its state
on_motion_ignoring_direction(s, event, exc) ==
    IF ~s.is_dragging \/ ~event.inaxes THEN s
    ELSE LET hex_pos == find_hex_at_point(s.hexagons, event.xdata, event.ydata)
         IN  IF hex_pos = None \/ hex_pos \in s.already_toggled THEN s
             ELSE toggle_note([s EXCEPT !.already_toggled = @ \cup {hex_pos}],
                              hex_pos, TRUE, exc)

on_motion(s, event, exc) ==
    IF ~s.is_dragging \/ ~event.inaxes THEN s
    ELSE LET hex_pos == find_hex_at_point(s.hexagons, event.xdata, event.ydata)
         IN  IF hex_pos = None \/ hex_pos \in s.already_toggled THEN s
             ELSE LET s1 == [s EXCEPT !.already_toggled = @ \cup {hex_pos}]
                      is_active == hex_pos \in s1.active_notes
                  IN  IF BoolStr(is_active) # s1.drag_toggle_state
                      THEN toggle_note(s1, hex_pos, TRUE, exc)
                      ELSE s1

on_release(s) == [s EXCEPT !.is_dragging = FALSE, !.already_toggled = {}]


\* str.upper() and str.isupper() on the one-character keys
UpperOf == [k \in {"c", "d", "e", "f", "g", "a", "b"} |->
    CASE k = "c" -> "C" [] k = "d" -> "D" [] k = "e" -> "E" [] k = "f" -> "F"
      [] k = "g" -> "G" [] k = "a" -> "A" [] k = "b" -> "B"]
Upper(key) == IF key \in DOMAIN UpperOf THEN UpperOf[key] ELSE key
IsUpper(key) == key \in {"C", "D", "E", "F", "G", "A", "B"}

Timer(note) == [note |-> note, superseded |-> FALSE, pc |-> "wait", ch |-> 0]

\* The square of the distance between two layout positions, in units of
\* 0.005: three times the squared x difference plus the squared y difference.
SqDist(p, q) ==
    3 * (p[1] - q[1]) * (p[1] - q[1]) + (p[2] - q[2]) * (p[2] - q[2])

RECURSIVE SqrtBetween(_, _, _)
\* the largest r in lo..hi with r * r <= n
SqrtBetween(n, lo, hi) ==
    IF lo >= hi THEN lo
    ELSE LET mid == (lo + hi + 1) \div 2
         IN  IF mid * mid <= n THEN SqrtBetween(n, mid, hi)
             ELSE SqrtBetween(n, lo, mid - 1)

\* np.linalg.norm of a difference, rounded down to a twentieth of a unit
Norm(p, q) == SqrtBetween(400 * SqDist(p, q), 0, 46340)

\* A lower bound of the perimeter of a triangle, in twentieths of a unit;
\* the perimeter is less than three twentieths above it.
Perimeter(p1, p2, p3) == Norm(p1, p2) + Norm(p2, p3) + Norm(p3, p1)
PerimeterSlack == 3
\* the threshold 6, in twentieths of a unit of 0.005
PerimeterLimit == 24000

\* the positions of the highlighted cells, in the order of self.hexagons
ChordPositions(hexs, in_chord) ==
    LET InChord(hex_data) == hex_data.pitch_index \in in_chord
        positions == {[n \in 1..Len(chosen) |-> chosen[n].position] :
                         chosen \in {SelectSeq(hexs, InChord)}}
    IN  CHOOSE chord_positions \in positions : TRUE

\* the index triples (i, j, k) the three nested loops visit
Triples(n) ==
    UNION {UNION {{<<i, j, k>> : k \in (j + 1)..n} : j \in (i + 1)..n} :
              i \in 1..n}

\* a search that ends with the first three positions whenever there are
\* three, whatever their perimeter
TriangleChoices_first(chord_positions) ==
    IF Len(chord_positions) < 3 THEN {None} ELSE {<<1, 2, 3>>}

\* What the search for the triangle of least perimeter can end with: a
\* triple of indices into chord_positions, or None when no marker is drawn.
\* Perimeters that agree to within the rounding of the float sums are
\* ordered by that rounding; every triple of least perimeter is a possible
\* outcome.  Each distance and each perimeter is worked out once.
TriangleChoices(chord_positions) ==
    LET Least(per) == CHOOSE m \in {per[t] : t \in DOMAIN per} :
                          \A t \in DOMAIN per : m <= per[t]
        Within(per, least) ==
            {t \in DOMAIN per : per[t] < least + PerimeterSlack
                                   /\ per[t] < PerimeterLimit}
            \cup (IF least + PerimeterSlack > PerimeterLimit
                  THEN {None} ELSE {})
        Search(n, norm) ==
            UNION {UNION {Within(per, least) : least \in {Least(per)}} :
                      per \in {[t \in Triples(n) |->
                                  norm[t[1]][t[2]] + norm[t[2]][t[3]]
                                      + norm[t[1]][t[3]]]}}
    IN  IF Len(chord_positions) < 3 THEN {None}
        ELSE UNION {Search(Len(chord_positions), norm) :
                       norm \in {[i \in 1..Len(chord_positions) |->
                                    [j \in 1..Len(chord_positions) |->
                                        IF i < j
                                        THEN Norm(chord_positions[i],
                                                  chord_positions[j])
                                        ELSE 0]]}}

ChordIndices(root, quality) ==
    LET root_index == pitch_class_to_index(root)
    IN  IF quality = "major"
        THEN <<root_index, (root_index + 4) % 12, (root_index + 7) % 12>>
        ELSE <<root_index, (root_index + 3) % 12, (root_index + 7) % 12>>

\* highlight_chord without the call of clear_chord_highlights
highlight_chord_accumulating(s, root, quality, best) ==
    LET chord_indices == ChordIndices(root, quality)
        in_chord == {chord_indices[i] : i \in 1..3}
        chord_positions == ChordPositions(s.hexagons, in_chord)
        chord_notes == [i \in 1..3 |-> index_to_pitch_class(chord_indices[i])]
    IN  [s EXCEPT
            !.chord_highlights =
                @ \cup {s.hexagons[k].pos : k \in
                           {j \in 1..Len(s.hexagons) :
                               s.hexagons[j].pitch_index \in in_chord}},
            !.chord_triangles =
                IF best = None THEN @
                ELSE Append(@, [points |-> <<chord_positions[best[1]],
                                             chord_positions[best[2]],
                                             chord_positions[best[3]]>>,
                                edgecolor |-> IF quality = "major"
                                              THEN "red" ELSE "blue"]),
            !.timers = [k \in 1..Len(@) |-> [@[k] EXCEPT !.superseded = TRUE]]
                          \o [i \in 1..3 |-> Timer(chord_notes[i])]]

\* highlight_chord that also ends the drag gesture in progress
highlight_chord_ending_drag(s, root, quality, best) ==
    highlight_chord_accumulating(
        [clear_chord_highlights(s) EXCEPT !.is_dragging = FALSE,
                                          !.already_toggled = {}],
        root, quality, best)

\* best: the outcome of the search for the triangle, one of TriangleChoices
highlight_chord(s, root, quality, best) ==
    LET s0 == clear_chord_highlights(s)
        chord_indices == ChordIndices(root, quality)
        in_chord == {chord_indices[i] : i \in 1..3}
        chord_positions == ChordPositions(s0.hexagons, in_chord)
        chord_notes == [i \in 1..3 |-> index_to_pitch_class(chord_indices[i])]
    IN  [s0 EXCEPT
            !.chord_highlights =
                {s0.hexagons[k].pos : k \in
                    {j \in 1..Len(s0.hexagons) :
                        s0.hexagons[j].pitch_index \in in_chord}},
            !.chord_triangles =
                IF best = None THEN @
                ELSE Append(@, [points |-> <<chord_positions[best[1]],
                                             chord_positions[best[2]],
                                             chord_positions[best[3]]>>,
                                edgecolor |-> IF quality = "major"
                                              THEN "red" ELSE "blue"]),
            !.timers = [k \in 1..Len(@) |-> [@[k] EXCEPT !.superseded = TRUE]]
                          \o [i \in 1..3 |-> Timer(chord_notes[i])]]

IsChordKey(key) == Upper(key) \in {"C", "D", "E", "F", "G", "A", "B"}

on_key(s, key, excs, best) ==
    IF key = " " THEN clear_all(s, excs)
    ELSE IF IsChordKey(key)
    THEN IF IsUpper(key)
         THEN highlight_chord(s, key, "major", best)
         ELSE highlight_chord(s, Upper(key), "minor", best)
    ELSE s

\* the outcomes the triangle search can have for a key
KeyChoices(s, key) ==
    IF key # " " /\ IsChordKey(key)
    THEN LET chord_indices ==
                 ChordIndices(Upper(key), IF IsUpper(key) THEN "major" ELSE "minor")
         IN  TriangleChoices(ChordPositions(s.hexagons,
                                 {chord_indices[i] : i \in 1..3}))
    ELSE {None}

(* ------------------------------ actions ------------------------------- *)
Commit(s) ==
    /\ hexagons' = s.hexagons
    /\ active_notes' = s.active_notes
    /\ chord_highlights' = s.chord_highlights
    /\ chord_triangles' = s.chord_triangles
    /\ is_dragging' = s.is_dragging
    /\ drag_toggle_state' = s.drag_toggle_state
    /\ already_toggled' = s.already_toggled
    /\ playing_notes' = s.playing_notes
    /\ channels' = s.channels
    /\ timers' = s.timers
    /\ calls' = s.calls
    /\ UNCHANGED <<AUDIO_AVAILABLE, note_sounds>>

StartupVars == <<lookup, rows, cols, pregen_pc, pregen_i, sounds_pregenerated_event,
                 idle_callbacks, grid, event_sets, setups>>

NoGesture(hexs) ==
    [flips |-> [c \in HexPositions(hexs) |-> 0],
     starts |-> [c \in HexPositions(hexs) |-> 0],
     was_active |-> {},
     keys |-> FALSE]

\* the toggles and start requests a handler run made, per cell
Flips(s, c) == Count(s.calls, Call("toggle_note", HexAt(s.hexagons, c).note, 0, c))
Starts(s, c) ==
    IF Flips(s, c) = 0 THEN 0
    ELSE Count(s.calls,
               Call("start_continuous_note", HexAt(s.hexagons, c).note, 0, NoPos))

\* left-button events inside the axes at each point, one event outside the
\* axes and one of another button
MouseEvents ==
    [inaxes : {TRUE}, button : {1}, xdata : PointXs, ydata : PointYs]
    \cup [inaxes : {FALSE}, button : {1}, xdata : {0}, ydata : {0}]
    \cup [inaxes : {TRUE}, button : {3}, xdata : {0}, ydata : {0}]

OnPress(event, exc) ==
    \E s \in {on_press(Self, event, exc)} :
        /\ Commit(s)
        /\ gesture' =
             IF s.is_dragging /\ s.calls # EmptyBag
             THEN [flips |-> [c \in HexPositions(hexagons) |-> Flips(s, c)],
                   starts |-> [c \in HexPositions(hexagons) |-> Starts(s, c)],
                   was_active |-> active_notes,
                   keys |-> FALSE]
             ELSE gesture
        /\ UNCHANGED StartupVars

OnMotion(event, exc) ==
    \E s \in {on_motion(Self, event, exc)} :
        /\ Commit(s)
        /\ gesture' =
             [gesture EXCEPT
                 !.flips = [c \in DOMAIN @ |-> @[c] + Flips(s, c)],
                 !.starts = [c \in DOMAIN @ |-> @[c] + Starts(s, c)]]
        /\ UNCHANGED StartupVars

OnRelease ==
    /\ \E s \in {on_release(Self)} : Commit(s)
    /\ gesture' = NoGesture(hexagons)
    /\ UNCHANGED StartupVars

OnKey(key, excs) ==
    /\ IsChordKey(key) => Len(timers) + 3 <= MaxTimers
    /\ \E best \in KeyChoices(Self, key) :
         \E s \in {on_key(Self, key, excs, best)} : Commit(s)
    /\ gesture' = IF is_dragging THEN [gesture EXCEPT !.keys = TRUE] ELSE gesture
    /\ UNCHANGED StartupVars


Remove(seq, i) == [k \in 1..(Len(seq) - 1) |-> IF k < i THEN seq[k] ELSE seq[k + 1]]

InteractionVars == <<hexagons, active_notes, chord_highlights, chord_triangles,
                     is_dragging, drag_toggle_state, already_toggled, gesture>>

\* A timer thread runs play_chord_preview up to find_channel().  It holds no
\* lock.  exc: a call inside the try block raises.
PreviewFind(i, exc) ==
    /\ i \in 1..Len(timers)
    /\ timers[i].pc = "wait"
    /\ LET channel == find_channel(channels)
       IN  timers' = IF ~AUDIO_AVAILABLE \/ exc \/ channel = 0
                     THEN Remove(timers, i)
                     ELSE [timers EXCEPT ![i].pc = "found", ![i].ch = channel]
    /\ UNCHANGED <<AUDIO_AVAILABLE, note_sounds, playing_notes, channels, calls>>
    /\ UNCHANGED InteractionVars
    /\ UNCHANGED StartupVars

\* ... and then channel.play(sound) on the channel it found
PreviewPlay(i, exc) ==
    /\ i \in 1..Len(timers)
    /\ timers[i].pc = "found"
    /\ channels' = IF exc THEN channels
                   ELSE [channels EXCEPT ![timers[i].ch] = Preview(timers[i].note)]
    /\ timers' = Remove(timers, i)
    /\ UNCHANGED <<AUDIO_AVAILABLE, note_sounds, playing_notes, calls>>
    /\ UNCHANGED InteractionVars
    /\ UNCHANGED StartupVars

\* the mixer reaches the end of a one-shot sound
PreviewEnds(c) ==
    /\ c \in Channels
    /\ channels[c].kind = "preview"
    /\ channels' = [channels EXCEPT ![c] = Idle]
    /\ UNCHANGED <<AUDIO_AVAILABLE, note_sounds, playing_notes, timers, calls>>
    /\ UNCHANGED InteractionVars
    /\ UNCHANGED StartupVars

ObjectVars == <<AUDIO_AVAILABLE, hexagons, active_notes, chord_highlights,
                chord_triangles, is_dragging, drag_toggle_state, already_toggled,
                playing_notes, channels, timers, calls, gesture>>

\* pregenerate_sounds without the try/except around make_sound: the
\* exception ends the thread
pregenerate_sounds_uncaught(fails) ==
    /\ pregen_pc = "pregenerate"
    /\ IF ~AUDIO_AVAILABLE
       THEN /\ pregen_pc' = "set_event"
            /\ UNCHANGED <<pregen_i, note_sounds>>
       ELSE LET note == pitch_classes[pregen_i + 1]
            IN  /\ fails => note \in FailableNotes
                /\ note_sounds' = IF fails THEN note_sounds
                                  ELSE note_sounds \cup {note}
                /\ pregen_i' = pregen_i + 1
                /\ pregen_pc' = IF fails THEN "dead"
                                ELSE IF pregen_i + 1 = Len(pitch_classes)
                                THEN "set_event" ELSE "pregenerate"
    /\ UNCHANGED lookup
    /\ UNCHANGED <<rows, cols, sounds_pregenerated_event, idle_callbacks, grid,
                   event_sets, setups>>
    /\ UNCHANGED ObjectVars

\* one iteration of the loop of pregenerate_sounds, in the background thread
\* fails: pygame.sndarray.make_sound raises
pregenerate_sounds(fails) ==
    /\ pregen_pc = "pregenerate"
    /\ IF ~AUDIO_AVAILABLE
       THEN /\ pregen_pc' = "set_event"
            /\ UNCHANGED <<pregen_i, note_sounds>>
       ELSE LET note == pitch_classes[pregen_i + 1]
            IN  /\ fails => note \in FailableNotes
                /\ note_sounds' = IF fails THEN note_sounds
                                  ELSE note_sounds \cup {note}
                /\ pregen_i' = pregen_i + 1
                /\ pregen_pc' = IF pregen_i + 1 = Len(pitch_classes)
                                THEN "set_event" ELSE "pregenerate"
    /\ UNCHANGED lookup
    /\ UNCHANGED <<rows, cols, sounds_pregenerated_event, idle_callbacks, grid,
                   event_sets, setups>>
    /\ UNCHANGED ObjectVars

\* the rest of _run_pregeneration_task
SetEvent ==
    /\ pregen_pc = "set_event"
    /\ sounds_pregenerated_event' = TRUE
    /\ event_sets' = event_sets + 1
    /\ pregen_pc' = "after_idle"
    /\ UNCHANGED lookup
    /\ UNCHANGED <<rows, cols, pregen_i, note_sounds, idle_callbacks, grid, setups>>
    /\ UNCHANGED ObjectVars

AfterIdle ==
    /\ pregen_pc = "after_idle"
    /\ idle_callbacks' = idle_callbacks + 1
    /\ pregen_pc' = "done"
    /\ UNCHANGED lookup
    /\ UNCHANGED <<rows, cols, pregen_i, note_sounds, sounds_pregenerated_event,
                   grid, event_sets, setups>>
    /\ UNCHANGED ObjectVars

\* an idle callback that stays queued after it has run
_post_generation_setup_requeued ==
    /\ idle_callbacks > 0
    /\ IF ~sounds_pregenerated_event
       THEN UNCHANGED <<grid, hexagons, setups, gesture>>
       ELSE /\ grid' = create_tonnetz_grid(rows, cols)
            /\ hexagons' = create_hexagons(grid')
            /\ setups' = setups + 1
            /\ gesture' = NoGesture(hexagons')
    /\ UNCHANGED lookup
    /\ UNCHANGED <<rows, cols, pregen_pc, pregen_i, note_sounds,
                   sounds_pregenerated_event, event_sets, idle_callbacks>>
    /\ UNCHANGED <<AUDIO_AVAILABLE, active_notes, chord_highlights,
                   chord_triangles, is_dragging, drag_toggle_state,
                   already_toggled, playing_notes, channels, timers, calls>>

\* the idle callback, run by the foreground event loop
_post_generation_setup ==
    /\ idle_callbacks > 0
    /\ idle_callbacks' = idle_callbacks - 1
    /\ IF ~sounds_pregenerated_event
       THEN UNCHANGED <<grid, hexagons, setups, gesture>>
       ELSE /\ grid' = create_tonnetz_grid(rows, cols)
            /\ hexagons' = create_hexagons(grid')
            /\ setups' = setups + 1
            /\ gesture' = NoGesture(hexagons')
    /\ UNCHANGED lookup
    /\ UNCHANGED <<rows, cols, pregen_pc, pregen_i, note_sounds,
                   sounds_pregenerated_event, event_sets>>
    /\ UNCHANGED <<AUDIO_AVAILABLE, active_notes, chord_highlights,
                   chord_triangles, is_dragging, drag_toggle_state,
                   already_toggled, playing_notes, channels, timers, calls>>

\* the object TonnetzGrid(nrows, ncols) once __init__ has returned
Constructed(nrows, ncols) ==
    /\ AUDIO_AVAILABLE \in BOOLEAN
    /\ rows = nrows
    /\ cols = ncols
    /\ pregen_pc = "pregenerate"
    /\ pregen_i = 0
    /\ note_sounds = {}
    /\ sounds_pregenerated_event = FALSE
    /\ idle_callbacks = 0
    /\ grid = <<>>
    /\ hexagons = <<>>
    /\ active_notes = {}
    /\ chord_highlights = {}
    /\ chord_triangles = <<>>
    /\ is_dragging = FALSE
    /\ drag_toggle_state = None
    /\ already_toggled = {}
    /\ playing_notes = <<>>
    /\ channels = [c \in Channels |-> Idle]
    /\ timers = <<>>
    /\ calls = EmptyBag
    /\ event_sets = 0
    /\ setups = 0
    /\ gesture = NoGesture(<<>>)
    /\ lookup = None

Init == Constructed(Rows, Cols)

Next ==
    \/ \E fails \in BOOLEAN : pregenerate_sounds(fails)
    \/ SetEvent
    \/ AfterIdle
    \/ _post_generation_setup
    \/ \E event \in MouseEvents, exc \in BOOLEAN : OnPress(event, exc)
    \/ \E event \in MouseEvents, exc \in BOOLEAN : OnMotion(event, exc)
    \/ OnRelease
    \/ \E key \in Keys, excs \in SUBSET (DOMAIN playing_notes) : OnKey(key, excs)

\* The program from start-up on, with pointer events, the space key and a
\* key that is bound to nothing.
Spec == Init /\ [][Next]_vars

\* The state once start-up has finished: the grid built, the buffer of every
\* note made but of those make_sound failed for.
Ready(nrows, ncols, failed) ==
    /\ AUDIO_AVAILABLE \in BOOLEAN
    /\ rows = nrows
    /\ cols = ncols
    /\ pregen_pc = "done"
    /\ pregen_i = (IF AUDIO_AVAILABLE THEN Len(pitch_classes) ELSE 0)
    /\ note_sounds = (IF AUDIO_AVAILABLE THEN Notes \ failed ELSE {})
    /\ sounds_pregenerated_event = TRUE
    /\ idle_callbacks = 0
    /\ grid = create_tonnetz_grid(rows, cols)
    /\ hexagons = create_hexagons(grid)
    /\ active_notes = {}
    /\ chord_highlights = {}
    /\ chord_triangles = <<>>
    /\ is_dragging = FALSE
    /\ drag_toggle_state = None
    /\ already_toggled = {}
    /\ playing_notes = <<>>
    /\ channels = [c \in Channels |-> Idle]
    /\ timers = <<>>
    /\ calls = EmptyBag
    /\ event_sets = 1
    /\ setups = 1
    /\ gesture = NoGesture(hexagons)

ReadyInit == Ready(Rows, Cols, {}) /\ lookup = None

ChordMouseEvents ==
    [inaxes : {TRUE}, button : {1}, xdata : PointXs, ydata : ChordPointYs]

ChordNext ==
    \/ \E event \in ChordMouseEvents, exc \in BOOLEAN : OnPress(event, exc)
    \/ \E key \in ChordKeys, excs \in SUBSET (DOMAIN playing_notes) : OnKey(key, excs)
    \/ \E i \in 1..MaxTimers, exc \in BOOLEAN : PreviewFind(i, exc)
    \/ \E i \in 1..MaxTimers, exc \in BOOLEAN : PreviewPlay(i, exc)
    \/ \E c \in Channels : PreviewEnds(c)

\* The program once start-up has finished, with chord requests and their
\* preview threads.
ChordSpec == ReadyInit /\ [][ChordNext]_vars


\* every variable but lookup
ProgramVars == <<AUDIO_AVAILABLE, rows, cols, pregen_pc, pregen_i, note_sounds,
                 sounds_pregenerated_event, idle_callbacks, grid, hexagons,
                 active_notes, chord_highlights, chord_triangles, is_dragging,
                 drag_toggle_state, already_toggled, playing_notes, channels,
                 timers, calls, event_sets, setups, gesture>>

\* a caller is about to look up a root name for a chord of a quality
PitchInit ==
    \E note \in NoteNames, quality \in Qualities :
        /\ Ready(Rows, Cols, {})
        /\ lookup = [note |-> note, quality |-> quality, pc |-> "call",
                     index |-> 0 - 1, chord_indices |-> <<>>]

\* root_index = self.pitch_class_to_index(root)
PitchClassToIndex ==
    /\ lookup.pc = "call"
    /\ lookup' = [lookup EXCEPT !.pc = "returned",
                                !.index = pitch_class_to_index(lookup.note)]
    /\ UNCHANGED ProgramVars

\* the chord indices highlight_chord derives from the root
ChordIndicesOfRoot ==
    /\ lookup.pc = "returned"
    /\ lookup' = [lookup EXCEPT
                     !.pc = "done",
                     !.chord_indices = ChordIndices(lookup.note, lookup.quality)]
    /\ UNCHANGED ProgramVars

PitchNext == PitchClassToIndex \/ ChordIndicesOfRoot

\* pitch_class_to_index called with a name, as highlight_chord calls it
PitchSpec == PitchInit /\ [][PitchNext]_vars

PlayInit ==
    /\ \E failed \in SUBSET FailableNotes : Ready(Rows, Cols, failed)
    /\ lookup = None

PlayMouseEvents ==
    [inaxes : {TRUE}, button : {1}, xdata : PointXs, ydata : PlayPointYs]

PlayNext ==
    \/ \E event \in PlayMouseEvents, exc \in BOOLEAN : OnPress(event, exc)
    \/ \E event \in PlayMouseEvents, exc \in BOOLEAN : OnMotion(event, exc)
    \/ OnRelease

\* The program once start-up has finished, with pointer events over cells
\* of more notes than the mixer has channels.
PlaySpec == PlayInit /\ [][PlayNext]_vars

\* the state once start-up of the grid of default height has finished
\* without audio
KeyInit == Ready(DefaultRows, Cols, {}) /\ ~AUDIO_AVAILABLE /\ lookup = None

KeyNext ==
    \/ \E key \in AllKeys, excs \in SUBSET (DOMAIN playing_notes) : OnKey(key, excs)
    \/ \E i \in 1..MaxTimers, exc \in BOOLEAN : PreviewFind(i, exc)

\* Key presses, every chord key among them, and the preview threads, which
\* return at once without audio.
KeySpec == KeyInit /\ [][KeyNext]_vars

\* the state once start-up has finished with audio and every buffer made
SustainInit == Ready(Rows, Cols, {}) /\ AUDIO_AVAILABLE /\ lookup = None

SustainNext ==
    \/ \E event \in MouseEvents : OnPress(event, FALSE)
    \/ \E event \in MouseEvents : OnMotion(event, FALSE)
    \/ OnRelease
    \/ OnKey(" ", {})

\* Pointer events and the space key with audio, every buffer present and no
\* backend call raising; the cells under the pointer carry no more notes
\* than the mixer has channels, and two of them carry the same note.
SustainSpec == SustainInit /\ [][SustainNext]_vars

HighlightMouseEvents ==
    [inaxes : {TRUE}, button : {1}, xdata : PointXs, ydata : HighlightPointYs]

HighlightNext ==
    \/ \E event \in HighlightMouseEvents : OnPress(event, FALSE)
    \/ \E event \in HighlightMouseEvents : OnMotion(event, FALSE)
    \/ OnRelease
    \/ \E key \in ChordKeys : OnKey(key, {})
    \/ \E i \in 1..MaxTimers : PreviewFind(i, TRUE)

\* The program once start-up has finished, with drag gestures over two
\* cells, chord requests and the space key; every preview thread ends in
\* its except clause before it plays, so that the mixer holds loops only.
HighlightSpec == ReadyInit /\ [][HighlightNext]_vars

LatticeInit ==
    \E nrows \in RowArgs, ncols \in ColArgs : Constructed(nrows, ncols)

LatticeNext ==
    \/ \E fails \in BOOLEAN : pregenerate_sounds(fails)
    \/ SetEvent
    \/ AfterIdle
    \/ _post_generation_setup

\* Start-up of TonnetzGrid(rows, cols) for every pair of arguments from one
\* below zero up to the default size.
LatticeSpec == LatticeInit /\ [][LatticeNext]_vars

\* The same program under the scheduling the runtime provides: the
\* background thread keeps running until it returns, and the event loop runs
\* a queued idle callback.
FairSpec ==
    /\ Spec
    /\ WF_vars(\E fails \in BOOLEAN : pregenerate_sounds(fails))
    /\ WF_vars(SetEvent)
    /\ WF_vars(AfterIdle)
    /\ WF_vars(_post_generation_setup)

(* ------------------------------ properties ---------------------------- *)
ActiveFlag(hexs, c) == HexAt(hexs, c).active
\* the number of calls of function f in a bag of calls
NumCalls(b, f) == BagCardinality([c \in {d \in DOMAIN b : d.f = f} |-> b[c]])
CentrePress(k) ==
    [inaxes |-> TRUE, button |-> 1,
     xdata |-> hexagons[k].position[1], ydata |-> hexagons[k].position[2]]

Cleared ==
    /\ active_notes = {}
    /\ \A k \in 1..Len(hexagons) : ~hexagons[k].active
    /\ chord_highlights = {}
    /\ DOMAIN playing_notes = {}

\* C1: whenever clear_all (key " ") has run, with no backend call raising,
\* ActiveNoteSet is empty, every cell's active flag is false,
\* ChordHighlightSet is empty and PlaybackRegistry is empty.
C1_ClearAllEmpties == [][OnKey(" ", {}) => Cleared']_vars

\* the part of the state the interaction layer owns
Interaction(s) ==
    [active_notes |-> s.active_notes,
     flags |-> [k \in 1..Len(s.hexagons) |-> s.hexagons[k].active],
     chord_highlights |-> s.chord_highlights,
     is_dragging |-> s.is_dragging,
     drag_toggle_state |-> s.drag_toggle_state,
     already_toggled |-> s.already_toggled]
WithAudio(s, available) ==
    IF available THEN [s EXCEPT !.AUDIO_AVAILABLE = TRUE]
    ELSE [s EXCEPT !.AUDIO_AVAILABLE = FALSE, !.note_sounds = {},
                   !.playing_notes = <<>>]

\* C2: from the same interaction state, every interaction operation (press,
\* motion, release, space key) leaves the same ActiveNoteSet, active flags,
\* ChordHighlightSet and drag state whether the audio subsystem is absent or
\* present.
C2_SameWithoutAudio ==
    /\ \A event \in MouseEvents :
        /\ Interaction(on_press(WithAudio(Self, FALSE), event, FALSE))
             = Interaction(on_press(WithAudio(Self, TRUE), event, FALSE))
        /\ Interaction(on_motion(WithAudio(Self, FALSE), event, FALSE))
             = Interaction(on_motion(WithAudio(Self, TRUE), event, FALSE))
    /\ Interaction(on_release(WithAudio(Self, FALSE)))
         = Interaction(on_release(WithAudio(Self, TRUE)))
    /\ \A key \in Keys : \A best \in KeyChoices(Self, key) :
        Interaction(on_key(WithAudio(Self, FALSE), key, {}, best))
          = Interaction(on_key(WithAudio(Self, TRUE), key, {}, best))

\* C3: for every cell c, toggle(c) followed by toggle(c) returns c's active
\* flag to its value before the pair, leaves ActiveNoteSet as it was and
\* touches no other cell's flag.
C3_ToggleTwice ==
    \A c \in HexPositions(hexagons), play_sound \in BOOLEAN,
       exc1 \in BOOLEAN, exc2 \in BOOLEAN :
        LET twice == toggle_note(toggle_note(Self, c, play_sound, exc1),
                                 c, play_sound, exc2)
        IN  /\ twice.active_notes = active_notes
            /\ \A d \in HexPositions(hexagons) :
                 ActiveFlag(twice.hexagons, d) = ActiveFlag(hexagons, d)

\* a cell that a press has just turned off again
C3_Witness ==
    \E k \in 1..Len(hexagons) :
        /\ Count(calls, Call("toggle_note", hexagons[k].note, 0, hexagons[k].pos)) = 1
        /\ Count(calls, Call("stop", hexagons[k].note, 1, NoPos)) = 1
        /\ ~hexagons[k].active
        /\ \E j \in 1..Len(hexagons) : hexagons[j].active

\* C4: within one drag gesture with no key event, every cell is toggled at
\* most once; in a turning-on gesture every visited cell that was off at the
\* press has been flipped exactly once, with one start request, and is on.
C4_OncePerGesture ==
    (is_dragging /\ ~gesture.keys) =>
        \A c \in HexPositions(hexagons) :
            /\ gesture.flips[c] <= 1
            /\ (drag_toggle_state = "True" /\ c \in already_toggled
                   /\ c \notin gesture.was_active)
                 => /\ gesture.flips[c] = 1
                    /\ gesture.starts[c] = 1
                    /\ c \in active_notes
                    /\ ActiveFlag(hexagons, c)

\* a turning-on drag that has gone over three cells
C4_Witness ==
    /\ is_dragging /\ ~gesture.keys /\ drag_toggle_state = "True"
    /\ Cardinality(already_toggled) = 3
    /\ gesture.was_active = {}
    /\ \A c \in already_toggled : gesture.flips[c] = 1

\* C5: a left press at the layout position of a cell hits that cell; if the
\* cell is off and its note is not looping (audio available, buffer made, a
\* channel free) the press turns it on and calls startLoop exactly once,
\* with the cell's note; if the cell is on, the press turns it off and calls
\* stopLoop exactly once, with the cell's note.
C5_PressAtCentre ==
    /\ [](\A k \in 1..Len(hexagons) :
            find_hex_at_point(hexagons, hexagons[k].position[1],
                              hexagons[k].position[2]) = hexagons[k].pos)
    /\ [][\A k \in 1..Len(hexagons) :
            LET c == hexagons[k].pos
                note == hexagons[k].note
            IN  (Count(calls', Call("toggle_note", note, 0, c)) = 1
                    /\ OnPress(CentrePress(k), FALSE)) =>
                  /\ (c \notin active_notes /\ note \notin DOMAIN playing_notes
                         /\ AUDIO_AVAILABLE /\ note \in note_sounds
                         /\ find_channel(channels) # 0)
                       => /\ c \in active_notes' /\ ActiveFlag(hexagons', c)
                          /\ NumCalls(calls', "start_continuous_note") = 1
                          /\ Count(calls', Call("start_continuous_note",
                                                note, 0, NoPos)) = 1
                          /\ NumCalls(calls', "stop_continuous_note") = 0
                  /\ c \in active_notes
                       => /\ c \notin active_notes' /\ ~ActiveFlag(hexagons', c)
                          /\ NumCalls(calls', "stop_continuous_note") = 1
                          /\ Count(calls', Call("stop_continuous_note",
                                                note, 0, NoPos)) = 1
                          /\ NumCalls(calls', "start_continuous_note") = 0]_vars

\* the origin cell after the second press: off, its loop stopped
C5_Witness ==
    /\ Len(hexagons) > 0
    /\ ~hexagons[1].active
    /\ Count(calls, Call("toggle_note", hexagons[1].note, 0, hexagons[1].pos)) = 1
    /\ Count(calls, Call("stop_continuous_note", hexagons[1].note, 0, NoPos)) = 1
    /\ NumCalls(calls, "stop") = 1
    /\ hexagons[1].note \notin DOMAIN playing_notes


\* C6: every entry (note -> channel) of PlaybackRegistry names a channel
\* that is playing that note's loop buffer, under every interleaving of the
\* event handlers with the preview threads.
C6_RegisteredChannelLoops ==
    \A n \in DOMAIN playing_notes : channels[playing_notes[n]] = Loop(n)

\* C7: PlaybackRegistry maps each note to one channel, and a startLoop
\* request for a note that is registered acquires no channel, issues no play
\* command and leaves the registry as it was.  (A step that changes
\* active_notes is a run of an event handler, and calls' is what it called.)
C7_OneChannelPerNote ==
    /\ [](playing_notes \in [DOMAIN playing_notes -> Channels])
    /\ [][\A n \in DOMAIN playing_notes :
            (active_notes' # active_notes
                /\ Count(calls', Call("start_continuous_note", n, 0, NoPos)) > 0)
              => /\ playing_notes' = playing_notes
                 /\ channels' = channels
                 /\ NumCalls(calls', "find_channel") = 0
                 /\ NumCalls(calls', "play") = 0]_vars

\* a start request for a note that another cell keeps looping
C7_Witness ==
    \E n \in DOMAIN playing_notes :
        /\ Count(calls, Call("start_continuous_note", n, 0, NoPos)) = 1
        /\ NumCalls(calls, "play") = 0
        /\ Cardinality({k \in 1..Len(hexagons) :
                           hexagons[k].note = n /\ hexagons[k].active}) = 2
        /\ channels[playing_notes[n]] = Loop(n)

\* C8: no preview thread started by an earlier chord request plays its tone
\* after a later chord request has been made.
C8_NoStalePreview ==
    [][\A i \in 1..MaxTimers :
         PreviewPlay(i, FALSE) => ~timers[i].superseded]_vars

\* the cells of the layout, without their active flags
Layout(hexs) ==
    [k \in 1..Len(hexs) |->
        [pos |-> hexs[k].pos, note |-> hexs[k].note,
         pitch_index |-> hexs[k].pitch_index, position |-> hexs[k].position]]

\* C9: before the pre-generation event is set the lattice and the hex layout
\* are not built and no step, so no press or motion, changes ActiveNoteSet,
\* an active flag or the drag state; the lattice and the layout are built
\* only after the event is set, and once.
C9_NothingBeforeSignal ==
    /\ [](~sounds_pregenerated_event => (grid = <<>> /\ hexagons = <<>>))
    /\ [][~sounds_pregenerated_event
           => UNCHANGED <<active_notes, hexagons, is_dragging,
                          drag_toggle_state, already_toggled>>]_vars
    /\ [][(grid' # grid \/ Layout(hexagons') # Layout(hexagons))
           => (sounds_pregenerated_event /\ setups = 0 /\ setups' = 1)]_vars
    /\ [](setups <= 1)

\* the grid and the layout, built after the event was set
C9_Witness ==
    /\ sounds_pregenerated_event
    /\ setups = 1
    /\ Len(grid) = Rows * Cols
    /\ Len(hexagons) = Rows * Cols

\* C10: the background thread sets the completion event in every run, sets
\* it once, and the foreground then builds the lattice: also without audio
\* and when make_sound fails for a note.
C10_SignalThenSetup ==
    /\ <>sounds_pregenerated_event
    /\ [](event_sets <= 1)
    /\ (sounds_pregenerated_event ~> (setups = 1 /\ Len(grid) = Rows * Cols))

\* start-up finished although the buffer of one note could not be made
C10_Witness ==
    /\ AUDIO_AVAILABLE
    /\ pregen_pc = "done"
    /\ note_sounds = Notes \ FailableNotes
    /\ sounds_pregenerated_event
    /\ event_sets = 1
    /\ setups = 1

(* --------------------------- the built lattice ------------------------- *)
\* cell n lies one column to the right of cell m and dy higher in the layout
StepApart(m, n, dy) ==
    /\ n[2] = m[2] + 1
    /\ Position(n[1], n[2])[2] - Position(m[1], m[2])[2] = dy
NorthEast(m, n) == StepApart(m, n, v_spacing \div 2)
SouthEast(m, n) == StepApart(m, n, 0 - (v_spacing \div 2))

\* C11: in the built lattice, a cell's northeast neighbour ((r, c+1) for
\* even c, (r+1, c+1) for odd c) has the cell's pitch-class index plus 4 mod
\* 12, and its southeast neighbour ((r-1, c+1) for even c, (r, c+1) for odd
\* c) has the cell's index plus 3 mod 12.
C11_ThirdsOnDiagonals ==
    \A i, j \in 1..Len(grid) :
        /\ NorthEast(grid[i].pos, grid[j].pos)
             => grid[j].pitch = (grid[i].pitch + 4) % 12
        /\ SouthEast(grid[i].pos, grid[j].pos)
             => grid[j].pitch = (grid[i].pitch + 3) % 12

\* the cells of a lattice as a set of coordinate pairs
GridPositions(g) == {g[k].pos : k \in 1..Len(g)}
\* the lattice of the object has been built
Built == setups = 1

\* C12: for rows >= 1 and cols >= 1 the built lattice gives the origin cell
\* (rows div 2, cols div 2) pitch class 0, has exactly rows*cols cells, one
\* for each coordinate pair of the rows x cols rectangle, and every cell's
\* value is an integer in [0,12).
C12_BuildShape ==
    (Built /\ rows >= 1 /\ cols >= 1) =>
        /\ Len(grid) = rows * cols
        /\ GridPositions(grid) = (0..(rows - 1)) \X (0..(cols - 1))
        /\ \A k \in 1..Len(grid) :
              /\ grid[k].pitch \in 0..11
              /\ grid[k].pos = <<rows \div 2, cols \div 2>> => grid[k].pitch = 0

\* the lattice of the default size, built, with 0 at its origin
C12_Witness ==
    /\ Built
    /\ rows = DefaultRows
    /\ cols = DefaultCols
    /\ Len(grid) = DefaultRows * DefaultCols
    /\ \E k \in 1..Len(grid) :
          grid[k].pos = <<DefaultRows \div 2, DefaultCols \div 2>> /\ grid[k].pitch = 0

\* C13: with rows <= 0 or cols <= 0 the lattice is never built: the object
\* holds no lattice at any time, neither an empty mapping that was built nor
\* a partial one such as a mapping of the origin cell alone.
C13_NoLatticeForBadSize ==
    (rows <= 0 \/ cols <= 0) => (~Built /\ grid = <<>>)

(* ------------------------------ note names ----------------------------- *)
\* the index each canonical name and each flat spelling stands for
KnownIndex ==
    [n \in {"C", "C#", "D", "D#", "E", "F", "F#", "G", "G#", "A", "A#", "B",
            "Db", "Eb", "Gb", "Ab", "Bb"} |->
        CASE n = "C" -> 0 [] n = "C#" -> 1 [] n = "D" -> 2 [] n = "D#" -> 3
          [] n = "E" -> 4 [] n = "F" -> 5 [] n = "F#" -> 6 [] n = "G" -> 7
          [] n = "G#" -> 8 [] n = "A" -> 9 [] n = "A#" -> 10 [] n = "B" -> 11
          [] n = "Db" -> 1 [] n = "Eb" -> 3 [] n = "Gb" -> 6 [] n = "Ab" -> 8
          [] n = "Bb" -> 10]

\* C14: pitch_class_to_index returns the canonical index for each of the 12
\* canonical names and for each flat spelling, and for any other name it
\* returns no index.
C14_UnknownNameFails ==
    lookup.pc # "call" =>
        IF lookup.note \in DOMAIN KnownIndex
        THEN lookup.index = KnownIndex[lookup.note]
        ELSE FALSE

(* ------------------------------ chord keys ----------------------------- *)
ChordLetterKeys == AllKeys \ {" "}
\* the pitch-class indices of the triad a chord key stands for
ExpectedChord(key) ==
    LET i == KnownIndex[Upper(key)]
    IN  IF IsUpper(key) THEN {i, (i + 4) % 12, (i + 7) % 12}
        ELSE {i, (i + 3) % 12, (i + 7) % 12}
\* the names of the root, the third and the fifth of that triad
ExpectedNotes(key) ==
    LET i == KnownIndex[Upper(key)]
        third == IF IsUpper(key) THEN 4 ELSE 3
    IN  <<pitch_classes[i + 1], pitch_classes[((i + third) % 12) + 1],
          pitch_classes[((i + 7) % 12) + 1]>>
\* the cells of the layout whose pitch-class index is in a set
CellsOf(hexs, indices) ==
    {hexs[k].pos : k \in {j \in 1..Len(hexs) : hexs[j].pitch_index \in indices}}

\* C15: key X of C, D, E, F, G, A, B uses the chord indices {i, i+4, i+7}
\* mod 12 and key x the indices {i, i+3, i+7} mod 12, i the index of X; after
\* the key ChordHighlightSet is exactly the set of the cells whose index is
\* one of them, whatever it was before.
C15_ChordHighlights ==
    /\ [](\A key \in ChordLetterKeys :
            LET chord_indices ==
                    ChordIndices(Upper(key),
                                 IF IsUpper(key) THEN "major" ELSE "minor")
            IN  {chord_indices[i] : i \in 1..3} = ExpectedChord(key))
    /\ [][\A key \in ChordLetterKeys :
            (/\ Len(timers') = Len(timers) + 3
             /\ [k \in 1..3 |-> timers'[Len(timers) + k].note] = ExpectedNotes(key)
             /\ OnKey(key, {}))
                => chord_highlights' = CellsOf(hexagons, ExpectedChord(key))]_vars

\* key a pressed after key E: the cells of A, C and E are highlighted, and
\* they are not the cells that were highlighted for E, G# and B
C15_Witness ==
    /\ Len(timers) = 4
    /\ timers[1].superseded /\ timers[1].note = "B"
    /\ [k \in 1..3 |-> timers[k + 1].note] = <<"A", "C", "E">>
    /\ \A k \in 2..4 : ~timers[k].superseded
    /\ chord_highlights = CellsOf(hexagons, {9, 0, 4})
    /\ chord_highlights # {}
    /\ chord_highlights # CellsOf(hexagons, {4, 8, 11})

(* ------------------------- requests without effect --------------------- *)
\* a start request for the note can do nothing: its buffer is missing, or
\* it is not registered and no channel is idle
StartIsNoOp(note) ==
    \/ ~AUDIO_AVAILABLE
    \/ note \notin note_sounds
    \/ /\ note \notin DOMAIN playing_notes
       /\ \A ch \in Channels : channels[ch].kind # "idle"

\* C16: a start request made when no channel is available or the note's
\* buffer is missing, and a stop request for a note that is not registered,
\* leave PlaybackRegistry and the channels as they were; the toggle that made
\* the request completes: the cell's active flag and ActiveNoteSet change.
C16_NoOpRequests ==
    [][\A k \in 1..Len(hexagons) :
         LET c == hexagons[k].pos
             note == hexagons[k].note
         IN  (/\ Count(calls', Call("toggle_note", note, 0, c)) = 1
              /\ \/ OnPress(CentrePress(k), FALSE)
                 \/ OnMotion(CentrePress(k), FALSE)) =>
               /\ (c \notin active_notes /\ StartIsNoOp(note))
                    => /\ Count(calls', Call("start_continuous_note",
                                             note, 0, NoPos)) = 1
                       /\ NumCalls(calls', "play") = 0
                       /\ playing_notes' = playing_notes
                       /\ channels' = channels
                       /\ c \in active_notes' /\ ActiveFlag(hexagons', c)
               /\ (c \in active_notes /\ note \notin DOMAIN playing_notes)
                    => /\ Count(calls', Call("stop_continuous_note",
                                             note, 0, NoPos)) = 1
                       /\ NumCalls(calls', "stop") = 0
                       /\ playing_notes' = playing_notes
                       /\ channels' = channels
                       /\ c \notin active_notes' /\ ~ActiveFlag(hexagons', c)]_vars

\* a cell turned on while every channel was looping another note: its note
\* has a buffer, a channel was asked for, none was played on
C16_Witness ==
    \E k \in 1..Len(hexagons) :
        /\ hexagons[k].active
        /\ hexagons[k].pos \in active_notes
        /\ AUDIO_AVAILABLE
        /\ hexagons[k].note \in note_sounds
        /\ hexagons[k].note \notin DOMAIN playing_notes
        /\ \A ch \in Channels : channels[ch].kind = "loop"
        /\ Count(calls, Call("toggle_note", hexagons[k].note, 0, hexagons[k].pos)) = 1
        /\ NumCalls(calls, "find_channel") = 1
        /\ NumCalls(calls, "play") = 0

(* --------------------------- failures in clear_all --------------------- *)
\* C17: when stop() raises for some of the registered notes during
\* clear_all, every other registered note is still stopped and
\* deregistered, a stop was attempted for each note, and the rest of
\* clear_all still runs: ActiveNoteSet is emptied and every active flag reset.
C17_StopFailureIsolated ==
    [][\A excs \in (SUBSET (DOMAIN playing_notes)) \ {{}} :
         (AUDIO_AVAILABLE /\ OnKey(" ", excs)) =>
            /\ \A n \in DOMAIN playing_notes :
                  Count(calls', Call("stop", n, playing_notes[n], NoPos)) = 1
            /\ \A n \in (DOMAIN playing_notes) \ excs :
                  /\ n \notin DOMAIN playing_notes'
                  /\ channels'[playing_notes[n]] = Idle
            /\ active_notes' = {}
            /\ \A k \in 1..Len(hexagons') : ~hexagons'[k].active]_vars

\* clear_all has run with two notes registered: stop() raised for one, which
\* is still registered, the other is stopped, and no cell is active
C17_Witness ==
    /\ NumCalls(calls, "stop") = 2
    /\ NumCalls(calls, "toggle_note") = 0
    /\ Cardinality(DOMAIN playing_notes) = 1
    /\ Cardinality({ch \in Channels : channels[ch].kind = "loop"}) = 1
    /\ active_notes = {}
    /\ Len(hexagons) > 0
    /\ \A k \in 1..Len(hexagons) : ~hexagons[k].active

(* -------------------------- the default lattice ------------------------ *)
\* the value of the column-parity formula: 4 * (rowOffset - 0.5) is the
\* whole number 4 * rowOffset - 2, which truncation leaves as it is
FormulaPitch(row, col, nrows, ncols) ==
    LET rowOffset == row - (nrows \div 2)
        colOffset == col - (ncols \div 2)
    IN  IF col % 2 = 0 THEN (7 * colOffset + 4 * rowOffset) % 12
        ELSE (7 * colOffset + 4 * rowOffset - 2) % 12

\* C18: the 7x12 lattice is built, every cell but the origin has the
\* pitch-class index the column-parity formula gives for it, and each of the
\* 12 pitch classes is the index of at least one cell.
C18_DefaultLattice ==
    (Built /\ rows = DefaultRows /\ cols = DefaultCols) =>
        /\ Len(grid) = DefaultRows * DefaultCols
        /\ \A k \in 1..Len(grid) :
              grid[k].pos # <<DefaultRows \div 2, DefaultCols \div 2>>
                  => grid[k].pitch = FormulaPitch(grid[k].pos[1], grid[k].pos[2],
                                                  DefaultRows, DefaultCols)
        /\ {grid[k].pitch : k \in 1..Len(grid)} = 0..11

\* the 7x12 lattice, built, with F right of the origin in an odd column and
\* every pitch class present
C18_Witness ==
    /\ Built
    /\ rows = DefaultRows
    /\ cols = DefaultCols
    /\ \E k \in 1..Len(grid) : grid[k].pos = <<3, 7>> /\ grid[k].pitch = 5
    /\ {grid[k].pitch : k \in 1..Len(grid)} = 0..11

(* ----------------------------- events without effect ------------------- *)
\* a left press inside the axes at a point that lies in no hexagon
Misses(event) ==
    /\ event.inaxes
    /\ event.button = 1
    /\ find_hex_at_point(hexagons, event.xdata, event.ydata) = None

\* C19: a press that hits no cell, and a motion event received while no
\* drag gesture is in progress, change nothing (ActiveNoteSet, the active
\* flags, the drag flag, the toggle direction, the visited set,
\* ChordHighlightSet, PlaybackRegistry, the channels) and make no call, so no
\* audio command; an idle controller stays idle.
C19_NoHitNoChange ==
    \A event \in MouseEvents, exc \in BOOLEAN :
        /\ Misses(event) => on_press(Self, event, exc) = Self
        /\ ~is_dragging => on_motion(Self, event, exc) = Self

\* an idle controller with a cell on and its note looping, the latest
\* handler run having made no call, and a point of the axes outside every
\* hexagon
C19_Witness ==
    /\ Len(hexagons) > 0
    /\ ~is_dragging
    /\ already_toggled = {}
    /\ active_notes # {}
    /\ DOMAIN playing_notes # {}
    /\ calls = EmptyBag
    /\ \E event \in MouseEvents : Misses(event)

(* ------------------------------ triad marker --------------------------- *)
\* the layout positions of the highlighted cells
HighlightedPositions ==
    {hexagons[k].position :
        k \in {j \in 1..Len(hexagons) : hexagons[j].pos \in chord_highlights}}
\* the 3-element subsets of a set of positions
Corners(points) == {T \in SUBSET points : Cardinality(T) = 3}
\* the perimeter of the triangle on three positions, as Perimeter bounds it
PerimeterOf(T) ==
    LET p1 == CHOOSE p \in T : TRUE
        p2 == CHOOSE p \in T \ {p1} : TRUE
        p3 == CHOOSE p \in T \ {p1, p2} : TRUE
    IN  Perimeter(p1, p2, p3)
\* the perimeter of every 3-element subset of the highlighted positions
HighlightedPerimeters ==
    {[T \in Corners(HighlightedPositions) |-> PerimeterOf(T)]}
\* the subsets whose perimeter is the least, to within the rounding
LeastPerimeter(per) ==
    {T \in DOMAIN per : \A U \in DOMAIN per : per[T] < per[U] + PerimeterSlack}
\* the set of the three vertices of a marker
Vertices(triangle) == {triangle.points[i] : i \in 1..3}

\* C20: in every reachable state there is at most one triad marker; there is
\* one when at least 3 cells are highlighted and the least perimeter over
\* the 3-element subsets of their positions is below 6, and only then; its
\* vertices are a subset of least perimeter (perimeters compared to within
\* the rounding of the distances); and there is none after the space key,
\* which runs clear_all and with it clear_chord_highlights.
C20_TriadMarker ==
    /\ [](/\ Len(chord_triangles) <= 1
          /\ \A per \in HighlightedPerimeters :
               /\ (\E T \in DOMAIN per : per[T] + PerimeterSlack <= PerimeterLimit)
                      => Len(chord_triangles) = 1
               /\ Len(chord_triangles) = 1
                      => /\ Cardinality(chord_highlights) >= 3
                         /\ \E T \in DOMAIN per : per[T] < PerimeterLimit
                         /\ Vertices(chord_triangles[1]) \in LeastPerimeter(per))
    /\ [][OnKey(" ", {}) => chord_triangles' = <<>> /\ chord_highlights' = {}]_vars

\* key C has just been pressed: the cells of C, E and G are highlighted,
\* the marker is drawn, and more than one triangle has the least perimeter
C20_Witness ==
    /\ Len(timers) >= 3
    /\ [k \in 1..3 |-> timers[Len(timers) - 3 + k].note] = <<"C", "E", "G">>
    /\ Cardinality(chord_highlights) > 3
    /\ Len(chord_triangles) = 1
    /\ \A per \in HighlightedPerimeters :
         /\ Cardinality(LeastPerimeter(per)) > 1
         /\ \E T \in DOMAIN per : per[T] >= PerimeterLimit

(* ------------------------- cells sharing a note ------------------------ *)
\* the cells of the layout that carry a note name
CellsCarrying(note) ==
    {hexagons[k].pos : k \in {j \in 1..Len(hexagons) : hexagons[j].note = note}}

\* C21: with audio, every buffer, a free channel for every start and no
\* backend failure, a note name is registered in playing_notes exactly when
\* at least one cell carrying it is in active_notes.
C21_RegisteredIffActive ==
    \A note \in Notes :
        note \in DOMAIN playing_notes <=> CellsCarrying(note) \cap active_notes # {}

(* ------------------------------ active flags --------------------------- *)
\* C22: in every reachable state each cell of the layout has its active
\* flag set exactly when its coordinate is in active_notes, and active_notes
\* holds only coordinates of the lattice.
C22_FlagsMatchActiveNotes ==
    /\ \A k \in 1..Len(hexagons) :
         hexagons[k].active <=> hexagons[k].pos \in active_notes
    /\ active_notes \subseteq GridPositions(grid)

\* a drag gesture has turned one cell off while another cell stays on
C22_Witness ==
    /\ is_dragging
    /\ drag_toggle_state = "False"
    /\ active_notes # {}
    /\ \E k \in 1..Len(hexagons) :
         /\ hexagons[k].pos \in already_toggled
         /\ ~hexagons[k].active
         /\ Count(calls, Call("toggle_note", hexagons[k].note, 0,
                              hexagons[k].pos)) = 1
    /\ \E k \in 1..Len(hexagons) : hexagons[k].active

(* --------------------------- the end of a gesture ---------------------- *)
\* C23: at the release that ends a drag gesture in which no key was
\* pressed, every cell visited in the gesture (the pressed cell and the
\* cells motion events hit) has its active flag equal to the toggle
\* direction of the gesture, and every other cell has the active flag it
\* had before the press.
C23_GestureOutcome ==
    [][(is_dragging /\ ~gesture.keys /\ OnRelease) =>
          \A c \in HexPositions(hexagons) :
              IF c \in already_toggled
              THEN BoolStr(ActiveFlag(hexagons', c)) = drag_toggle_state
              ELSE ActiveFlag(hexagons', c) <=> c \in gesture.was_active]_vars

\* the release is about to end a turning-on gesture without keys that
\* pressed an off cell and went over a cell that was on already, while a
\* third cell that was on before the press has not been visited
C23_Witness ==
    /\ is_dragging /\ ~gesture.keys /\ drag_toggle_state = "True"
    /\ Cardinality(already_toggled) = 2
    /\ \E c \in already_toggled : gesture.flips[c] = 1 /\ c \notin gesture.was_active
    /\ \E c \in already_toggled : gesture.flips[c] = 0 /\ c \in gesture.was_active
    /\ \E c \in active_notes \ already_toggled : c \in gesture.was_active

(* ------------------------ highlights and active cells ------------------ *)
\* a handler result has the active cells, every active flag, the drag
\* session, the registered loops and the mixer channels of the state it
\* started from
KeepsActiveSide(s) ==
    /\ s.active_notes = active_notes
    /\ \A k \in 1..Len(hexagons) : s.hexagons[k].active = hexagons[k].active
    /\ s.is_dragging = is_dragging
    /\ s.drag_toggle_state = drag_toggle_state
    /\ s.already_toggled = already_toggled
    /\ s.playing_notes = playing_notes
    /\ s.channels = channels
\* a step of one of the pointer handlers of the runs
MouseStep ==
    \/ \E event \in HighlightMouseEvents : OnPress(event, FALSE)
    \/ \E event \in HighlightMouseEvents : OnMotion(event, FALSE)
    \/ OnRelease

\* C24: highlight_chord, for a major and a minor chord, and
\* clear_chord_highlights leave active_notes, every cell's active flag, the
\* drag session and playing_notes as they are (the handler stops no loop);
\* toggle_note, on_press, on_motion and on_release leave chord_highlights as
\* it is.
C24_HighlightsApart ==
    /\ [](/\ \A s \in {clear_chord_highlights(Self)} : KeepsActiveSide(s)
          /\ \A key \in HighlightKeys : \A best \in KeyChoices(Self, key) :
               \A s \in {highlight_chord(Self, Upper(key),
                                         IF IsUpper(key) THEN "major" ELSE "minor",
                                         best)} : KeepsActiveSide(s)
          /\ \A pos \in HexPositions(hexagons), play_sound, exc \in BOOLEAN :
               toggle_note(Self, pos, play_sound, exc).chord_highlights
                   = chord_highlights
          /\ \A event \in MouseEvents, exc \in BOOLEAN :
               /\ on_press(Self, event, exc).chord_highlights = chord_highlights
               /\ on_motion(Self, event, exc).chord_highlights = chord_highlights
          /\ on_release(Self).chord_highlights = chord_highlights)
    /\ [][/\ Len(timers') > Len(timers) =>
               UNCHANGED <<active_notes, is_dragging, drag_toggle_state,
                           already_toggled, playing_notes, channels>>
          /\ chord_highlights' # chord_highlights => ~MouseStep]_vars

\* key C has just been pressed in the middle of a drag gesture: a cell that
\* is on is highlighted too, its note is still looping and the gesture goes on
C24_Witness ==
    /\ is_dragging /\ gesture.keys
    /\ calls = EmptyBag
    /\ Len(timers) = 3
    /\ \A k \in 1..3 : timers[k].pc = "wait" /\ ~timers[k].superseded
    /\ [k \in 1..3 |-> timers[k].note] = <<"C", "E", "G">>
    /\ active_notes \cap chord_highlights # {}
    /\ already_toggled # {}
    /\ \E k \in 1..Len(hexagons) :
         /\ hexagons[k].active
         /\ hexagons[k].note \in DOMAIN playing_notes
         /\ channels[playing_notes[hexagons[k].note]].kind = "loop"

====
